---- MODULE Spec2Model ----
(***************************************************************************)
(* The catalog/schema tree of qlbridge's schema package (schema/schema.go): *)
(* Schema nodes with their table indexes, Tables with their Fields, and the *)
(* Source collaborator the nodes load table definitions from.               *)
(*                                                                          *)
(* Strings are sequences of one-character strings, so that lower-casing,    *)
(* byte-wise ordering and splitting are computed rather than assumed.       *)
(* Pointers are identifiers: a Schema is named by its node id, a Table by   *)
(* its index in the heap `tables`, a Field by its index in `fields`.        *)
(***************************************************************************)
EXTENDS Integers, Sequences, FiniteSets, TLC

VARIABLES
    schemas,    \* node id -> Schema struct
    tables,     \* heap of Table structs: table pointer -> struct
    fields,     \* heap of Field structs: field pointer -> struct
    src,        \* Source id -> the table names Source.Tables() lists
    ret,        \* what the last call did and returned to its caller
    calls,      \* how many calls have changed the catalog
    panicked,   \* a nil dereference has ended the process
    pc,         \* goroutine -> where it is in the call it is making
    mu          \* node id -> its RWMutex: the writer holding it, the readers

vars == <<schemas, tables, fields, src, ret, calls, panicked, pc, mu>>

----------------------------------------------------------------------------
(* Bounds of the model *)

\* Table structs the callers create with NewTable
MaxTables == 2
\* Field structs the callers create
MaxFields == 3
\* calls that change the catalog
MaxCalls == 4
\* calls that build the catalog the lookups are made on
MaxBuild == 3
\* calls that two goroutines make at once
MaxLock == 3
\* calls that build a tree three nodes deep
MaxTree == 3
\* Field structs of the table whose rows are asked for
MaxRowFields == 2
\* the latest instant of the clock, in minutes after the zero time
MaxNow == 3
\* calls that change the catalog between the staleness checks
MaxFresh == 2

----------------------------------------------------------------------------
(* Strings *)

\* The byte value of a character: sort.Strings orders byte-wise
Code(c) ==
    CASE c = "." -> 46
      [] c = "A" -> 65
      [] c = "B" -> 66
      [] c = "S" -> 83
      [] c = "a" -> 97
      [] c = "b" -> 98
      [] c = "s" -> 115
      [] OTHER -> 122

ToLowerChar(c) ==
    CASE c = "A" -> "a"
      [] c = "B" -> "b"
      [] c = "S" -> "s"
      [] OTHER -> c

ToUpperChar(c) ==
    CASE c = "a" -> "A"
      [] c = "b" -> "B"
      [] c = "s" -> "S"
      [] OTHER -> c

\* strings.ToLower
ToLower(s) == [i \in 1..Len(s) |-> ToLowerChar(s[i])]

\* strings.ToUpper
ToUpper(s) == [i \in 1..Len(s) |-> ToUpperChar(s[i])]

\* a < b, byte-wise lexicographic, as Go compares strings
RECURSIVE StrLess(_, _)
StrLess(a, b) ==
    IF Len(b) = 0 THEN FALSE
    ELSE IF Len(a) = 0 THEN TRUE
    ELSE IF Code(a[1]) # Code(b[1]) THEN Code(a[1]) < Code(b[1])
    ELSE StrLess(Tail(a), Tail(b))

\* s with x put before the first element greater than x
RECURSIVE InsertSorted(_, _)
InsertSorted(s, x) ==
    IF Len(s) = 0 THEN <<x>>
    ELSE IF StrLess(x, s[1]) THEN <<x>> \o s
    ELSE <<s[1]>> \o InsertSorted(Tail(s), x)

\* sort.Strings: the slice in ascending order
RECURSIVE SortStrings(_)
SortStrings(s) ==
    IF Len(s) = 0 THEN <<>>
    ELSE InsertSorted(SortStrings(Tail(s)), s[1])

\* The position of the first "." of s, 0 when it has none
RECURSIVE DotAt(_, _)
DotAt(s, i) ==
    IF i > Len(s) THEN 0
    ELSE IF s[i] = "." THEN i
    ELSE DotAt(s, i + 1)

\* expr.LeftRight: <<left, right, ok>> of a `schema.table` name, split at
\* its first separator; <<"", val, FALSE>> when there is nothing to split
LeftRight(val) ==
    LET d == DotAt(val, 1) IN
    IF Len(val) < 2 \/ d = 0 THEN <<<<>>, val, FALSE>>
    ELSE <<SubSeq(val, 1, d - 1), SubSeq(val, d + 1, Len(val)), TRUE>>

----------------------------------------------------------------------------
(* Go maps: a function whose domain is the set of keys present *)

EmptyMap == <<>>

HasKey(f, k) == k \in DOMAIN f

MapPut(f, k, v) == [x \in (DOMAIN f) \cup {k} |-> IF x = k THEN v ELSE f[x]]

\* f[k], the zero value when k is missing
MapGet(f, k, zero) == IF k \in DOMAIN f THEN f[k] ELSE zero

\* the elements of a sequence
Range(s) == {s[i] : i \in 1..Len(s)}

----------------------------------------------------------------------------
(* Pointers and errors *)

\* a nil *Schema, Source, *TablePartition or Conn
Nil == "nil"
\* a nil *Table or *Field (heap indexes start at 1)
NilPtr == 0

NoErr == [kind |-> "nil", name |-> <<>>]
\* the package's ErrNotFound sentinel
ErrNotFound == [kind |-> "ErrNotFound", name |-> <<>>]
\* an error built with fmt.Errorf, carrying the name it reports
Errorf(kind, name) == [kind |-> kind, name |-> name]
\* the error a Source returns for a call about `name`
BackendErr(ds, name) == [kind |-> "backend:" \o ds, name |-> name]

----------------------------------------------------------------------------
(* hash/fnv New64 (FNV-1), on eight little-endian bytes: TLC's integers are *)
(* 32 bits wide, the hash is 64.                                            *)

\* a XOR b of two n-bit numbers
RECURSIVE XorBits(_, _, _)
XorBits(a, b, n) ==
    IF n = 0 THEN 0
    ELSE (((a % 2) + (b % 2)) % 2) + 2 * XorBits(a \div 2, b \div 2, n - 1)

\* h * 0x100000001b3 mod 2^64: h * 0x1b3 + (h << 40), byte by byte with carry
RECURSIVE MulPrime64(_, _, _)
MulPrime64(h, i, carry) ==
    IF i > 8 THEN <<>>
    ELSE LET t == (h[i] * 435) + (IF i > 5 THEN h[i - 5] ELSE 0) + carry
         IN  <<(t % 256)>> \o MulPrime64(h, i + 1, t \div 256)

\* the offset basis 0xcbf29ce484222325
FnvOffset64 == <<37, 35, 34, 132, 228, 156, 242, 203>>

\* hash.Write: for each byte, multiply by the prime and XOR the byte in
RECURSIVE FnvWrite(_, _)
FnvWrite(h, s) ==
    IF Len(s) = 0 THEN h
    ELSE LET m == MulPrime64(h, 1, 0)
         IN  FnvWrite([m EXCEPT ![1] = XorBits(m[1], Code(s[1]), 8)], Tail(s))

\* fnv.New64().Write(name).Sum64()
Fnv64(name) == FnvWrite(FnvOffset64, name)

ZeroID == <<0, 0, 0, 0, 0, 0, 0, 0>>

----------------------------------------------------------------------------
(* The structs *)

\* a nil *ConfigSource
NilConf == [isNil |-> TRUE, PartitionCt |-> 0, Partitions |-> <<>>]

\* a ConfigSource with its partition_count and partitions
ConfigSource(ct, parts) == [isNil |-> FALSE, PartitionCt |-> ct, Partitions |-> parts]

\* TablePartition.Table of the partition descriptors of the model
PartitionTable(pt) ==
    CASE pt = "part_a"   -> <<"a">>
      [] pt = "part_a2"  -> <<"a">>
      [] pt = "part_b"   -> <<"b">>
      [] pt = "part_own" -> <<"a">>
      [] OTHER -> <<>>

\* NewSchemaSource: an empty schema with the given name and source
NewSchemaSource(schemaName, ds) ==
    [Name          |-> ToLower(schemaName),
     Conf          |-> NilConf,
     DS            |-> ds,
     parent        |-> Nil,
     schemas       |-> EmptyMap,
     tableSchemas  |-> EmptyMap,
     tableMap      |-> EmptyMap,
     tableNames    |-> <<>>,
     lastRefreshed |-> 0]

\* NewSchema: an empty schema with no source
NewSchema(schemaName) == NewSchemaSource(schemaName, Nil)

\* a [][]driver.Value: the nil slice, and a slice of rows, which make() or
\* a caller may leave empty
NilRows == [isNil |-> TRUE, v |-> <<>>]
Rows(v) == [isNil |-> FALSE, v |-> v]

\* NewTable: Name lower-cased, NameOriginal as given, no schema yet
NewTableStruct(table) ==
    [Name         |-> ToLower(table),
     NameOriginal |-> table,
     Fields       |-> <<>>,
     FieldMap     |-> EmptyMap,
     Schema       |-> Nil,
     Partition    |-> Nil,
     PartitionCt  |-> 0,
     tblID        |-> ZeroID,
     rows         |-> NilRows]

\* a Field as a struct literal leaves it: ordinal 0, no memoized row
NewFieldStruct(name, desc) ==
    [Name        |-> name,
     Description |-> desc,
     idx         |-> 0,
     row         |-> <<>>]

----------------------------------------------------------------------------
(* The operations, as functions of the world W: the nodes (W.s), the table  *)
(* heap (W.t), whether a nil dereference has panicked (W.panic) and the     *)
(* errors the Sources have returned during the call (W.errs).  `o` is what   *)
(* Source.Table answers during the call: o[<<ds, name>>] is "ok", "err" or   *)
(* "nil" (no table and no error).                                           *)

World(s, t, sr) == [s |-> s, t |-> t, src |-> sr, panic |-> FALSE, errs |-> {}]

\* Source.Table's answer for `name`; a Source nobody scripted describes it
AskSource(o, ds, name) == IF <<ds, name>> \in DOMAIN o THEN o[<<ds, name>>] ELSE "ok"

Panic(W) == [W EXCEPT !.panic = TRUE]

\* Table.init
TableInit(W, tp, s) == [W EXCEPT !.t[tp].Schema = s]

\* the partition the loop of loadTable leaves: the last descriptor for the table
RECURSIVE LastPartitionFor(_, _, _)
LastPartitionFor(parts, tableName, cur) ==
    IF Len(parts) = 0 THEN cur
    ELSE LastPartitionFor(Tail(parts), tableName,
            IF PartitionTable(parts[1]) = tableName THEN parts[1] ELSE cur)

\* the partition the loop of addTable leaves: the first descriptor for the
\* table, and only when the table carries none
RECURSIVE FirstPartitionFor(_, _, _)
FirstPartitionFor(parts, tableName, cur) ==
    IF Len(parts) = 0 THEN cur
    ELSE FirstPartitionFor(Tail(parts), tableName,
            IF PartitionTable(parts[1]) = tableName /\ cur = Nil THEN parts[1] ELSE cur)

\* the *Table a Source hands out for a name: one struct per Source and name,
\* past the pointers of the tables the callers create
SourceTablePtr(ds, name) ==
    MaxTables + (IF ds = "dp" THEN 0 ELSE 3)
              + (CASE name = <<"a">> -> 1 [] name = <<"b">> -> 2 [] OTHER -> 3)

\* Schema.loadTable: <<world, error>>
\* Schema.loadTable without `tbl.Schema = m`
loadTableUnbound(W, m, tableName, o) ==
    LET ds == W.s[m].DS IN
    IF ds = Nil THEN <<Panic(W), NoErr>>
    ELSE IF AskSource(o, ds, tableName) = "err"
    THEN <<[W EXCEPT !.errs = @ \cup {BackendErr(ds, tableName)}], BackendErr(ds, tableName)>>
    ELSE IF AskSource(o, ds, tableName) = "nil" THEN <<W, ErrNotFound>>
    ELSE LET tp   == SourceTablePtr(ds, tableName)
             conf == W.s[m].Conf
             made == NewTableStruct(tableName)
             tbl  == IF conf.isNil THEN made
                     ELSE [made EXCEPT !.Partition =
                              LastPartitionFor(conf.Partitions, tableName, @)]
         IN  <<[W EXCEPT !.t = MapPut(@, tp, tbl),
                         !.s[m].tableMap = MapPut(@, tbl.Name, tp),
                         !.s[m].tableSchemas = MapPut(@, tbl.Name, m)],
               NoErr>>

loadTable(W, m, tableName, o) ==
    LET ds == W.s[m].DS IN
    IF ds = Nil THEN <<Panic(W), NoErr>>
    ELSE IF AskSource(o, ds, tableName) = "err"
    THEN <<[W EXCEPT !.errs = @ \cup {BackendErr(ds, tableName)}], BackendErr(ds, tableName)>>
    ELSE IF AskSource(o, ds, tableName) = "nil" THEN <<W, ErrNotFound>>
    ELSE LET tp   == SourceTablePtr(ds, tableName)
             conf == W.s[m].Conf
             made == [NewTableStruct(tableName) EXCEPT !.Schema = m]
             tbl  == IF conf.isNil THEN made
                     ELSE [made EXCEPT !.Partition =
                              LastPartitionFor(conf.Partitions, tableName, @)]
         IN  <<[W EXCEPT !.t = MapPut(@, tp, tbl),
                         !.s[m].tableMap = MapPut(@, tbl.Name, tp),
                         !.s[m].tableSchemas = MapPut(@, tbl.Name, m)],
               NoErr>>

\* Schema.addschemaForTableUnlocked, the name not found in tableNames: the
\* append and the sort
\* the append of addschemaForTableUnlocked without the sort that follows it
appendTableNameUnsorted(W, m, tableName) ==
    [W EXCEPT !.s[m].tableNames = Append(@, tableName)]

appendTableName(W, m, tableName) ==
    [W EXCEPT !.s[m].tableNames = SortStrings(Append(@, tableName))]

\* Schema.addschemaForTableUnlocked, after the sort: the table looked up in
\* ss, loaded when ss has none, and the indexes written for a new key
indexTable(W1, m, tableName, ss, o) ==
    LET t1 == MapGet(W1.s[ss].tableMap, tableName, NilPtr)
        ld == IF t1 = NilPtr THEN loadTable(W1, m, tableName, o) ELSE <<W1, NoErr>>
        W2 == ld[1]
        tbl == IF t1 = NilPtr /\ ld[2] = NoErr
               THEN MapGet(W2.s[ss].tableMap, tableName, NilPtr)
               ELSE t1
    IN  IF W2.panic THEN W2
        ELSE IF ~HasKey(W2.s[m].tableMap, tableName)
        THEN [W2 EXCEPT !.s[m].tableSchemas = MapPut(@, tableName, ss),
                        !.s[m].tableMap = MapPut(@, tableName, tbl)]
        ELSE W2

\* Schema.addschemaForTableUnlocked
addschemaForTableUnlocked(W, m, tableName, ss, o) ==
    IF tableName \in Range(W.s[m].tableNames) THEN W
    ELSE indexTable(appendTableName(W, m, tableName), m, tableName, ss, o)

\* Schema.addTable, its first statements: the hash id, and the table stored
\* in tableMap
addTableMap(W, m, tp) ==
    [W EXCEPT !.t[tp].tblID = Fnv64(W.t[tp].Name),
              !.s[m].tableMap = MapPut(@, W.t[tp].Name, tp)]

\* addTable's partitioning with the branches the other way round: a
\* descriptor for the table first, the count only when there is none
addTablePartitionDescriptorFirst(W, m, tp) ==
    LET conf == W.s[m].Conf
        pt   == IF conf.isNil THEN Nil
                ELSE FirstPartitionFor(conf.Partitions, W.t[tp].Name, W.t[tp].Partition)
        W2 == IF conf.isNil THEN W
              ELSE IF pt # Nil THEN [W EXCEPT !.t[tp].Partition = pt]
              ELSE IF conf.PartitionCt > 0
              THEN [W EXCEPT !.t[tp].PartitionCt = conf.PartitionCt]
              ELSE W
    IN  TableInit(W2, tp, m)

\* Schema.addTable, the partitioning and tbl.init(m)
addTablePartition(W, m, tp) ==
    LET conf == W.s[m].Conf
        W2 == IF ~conf.isNil /\ conf.PartitionCt > 0
              THEN [W EXCEPT !.t[tp].PartitionCt = conf.PartitionCt]
              ELSE IF ~conf.isNil
              THEN [W EXCEPT !.t[tp].Partition =
                       FirstPartitionFor(conf.Partitions, W.t[tp].Name, @)]
              ELSE W
    IN  TableInit(W2, tp, m)

\* Schema.addTable, its last statement
addTableRegister(W, m, tp) ==
    addschemaForTableUnlocked(W, m, W.t[tp].Name, W.t[tp].Schema, EmptyMap)

\* Schema.addTable
addTable(W, m, tp) ==
    addTableRegister(addTablePartition(addTableMap(W, m, tp), m, tp), m, tp)

\* the children of m: the values of m.schemas
Children(W, m) == {W.s[m].schemas[k] : k \in DOMAIN W.s[m].schemas}

\* Schema.addChildSchema, before child.mu.RLock(): the child entered in
\* m.schemas, and its parent set
addChildLink(W, m, child) ==
    [W EXCEPT !.s[m].schemas = MapPut(@, W.s[child].Name, child),
              !.s[child].parent = m]

\* Schema.addChildSchema, the loop over child.tableMap
addChildCopy(W, m, child) ==
    LET ctm == W.s[child].tableMap
    IN  [W EXCEPT
           !.s[m].tableSchemas =
               [k \in (DOMAIN @) \cup (DOMAIN ctm) |-> IF k \in DOMAIN ctm THEN child ELSE @[k]],
           !.s[m].tableMap =
               [k \in (DOMAIN @) \cup (DOMAIN ctm) |-> IF k \in DOMAIN ctm THEN ctm[k] ELSE @[k]]]

\* Schema.addChildSchema
addChildSchema(W, m, child) ==
    addChildCopy(addChildLink(W, m, child), m, child)

\* the loop `for _, tableName := range names { m.addschemaForTableUnlocked(tableName, ss) }`
RECURSIVE AddAll(_, _, _, _, _)
AddAll(W, m, names, ss, o) ==
    IF Len(names) = 0 \/ W.panic THEN W
    ELSE AddAll(addschemaForTableUnlocked(W, m, names[1], ss, o), m, Tail(names), ss, o)

\* Schema.refreshSchemaUnlocked; `ord` is the order in which this run's
\* `range m.schemas` yields the children (Go leaves a map's order open)
RECURSIVE refreshSchemaUnlocked(_, _, _, _)
RECURSIVE RefreshChildren(_, _, _, _, _)
RefreshChildren(W, m, kids, o, ord) ==
    IF Len(kids) = 0 \/ W.panic THEN W
    ELSE LET ss == kids[1]
             W1 == refreshSchemaUnlocked(W, ss, o, ord)
             W2 == IF W1.panic THEN W1 ELSE AddAll(W1, m, W1.s[ss].tableNames, ss, o)
         IN  RefreshChildren(W2, m, Tail(kids), o, ord)

refreshSchemaUnlocked(W, m, o, ord) ==
    IF W.s[m].DS = Nil THEN Panic(W)
    ELSE LET W1 == AddAll(W, m, W.src[W.s[m].DS], m, o)
             kids == SelectSeq(ord, LAMBDA n : n \in Children(W1, m))
         IN  RefreshChildren(W1, m, kids, o, ord)

----------------------------------------------------------------------------
(* Table's fields *)

\* Field.AsRow on the field struct f: <<f, row>> after. The fields of the
\* model have one Type, Collation and Extra
FieldAsRow(f) ==
    IF Len(f.row) > 0 THEN <<f, f.row>>
    ELSE LET row == <<f.Name, "Type", "Collation", "", "", "", "Extra", "", f.Description>>
         IN  <<[f EXCEPT !.row = row], row>>

\* Table.AsRows on the table struct T and the field heap F: <<T, F, rows>> after
AsRows(T, F) ==
    IF Len(T.rows.v) > 0 THEN <<T, F, T.rows.v>>
    ELSE LET rows == [i \in 1..Len(T.Fields) |-> FieldAsRow(F[T.Fields[i]])[2]]
             F1   == [fp \in DOMAIN F |->
                         IF fp \in Range(T.Fields) THEN FieldAsRow(F[fp])[1] ELSE F[fp]]
         IN  <<[T EXCEPT !.rows = Rows(rows)], F1, rows>>

\* Table.SetRows
SetRows(T, rows) == [T EXCEPT !.rows = rows]

\* the slot of the first field of Fields named `name`, 0 when there is none
RECURSIVE SlotOf(_, _, _, _)
SlotOf(Flds, F, name, i) ==
    IF i > Len(Flds) THEN 0
    ELSE IF F[Flds[i]].Name = name THEN i
    ELSE SlotOf(Flds, F, name, i + 1)

\* Table.AddField on the table struct T and the field heap F: <<T, F>> after
AddField(T, F, fp) ==
    LET slot == SlotOf(T.Fields, F, F[fp].Name, 1)
        T1 == IF slot # 0 THEN [T EXCEPT !.Fields[slot] = fp]
              ELSE [T EXCEPT !.Fields = Append(@, fp)]
        F1 == IF slot # 0 THEN F ELSE [F EXCEPT ![fp].idx = Len(T.Fields)]
    IN  <<[T1 EXCEPT !.FieldMap = MapPut(@, F[fp].Name, fp)], F1>>

----------------------------------------------------------------------------
(* The lookups: functions of the nodes S, each <<value, error>> *)

\* Schema.Tables
Tables(S, m) == S[m].tableNames

\* Schema.Table without the strings.ToLower of its first statement
TableNoFold(S, m, tableName) ==
    LET tbl  == MapGet(S[m].tableMap, tableName, NilPtr)
        lr   == LeftRight(tableName)
        tbl2 == MapGet(S[m].tableMap, lr[2], NilPtr)
    IN  IF tbl # NilPtr THEN <<tbl, NoErr>>
        ELSE IF lr[3] /\ tbl2 # NilPtr THEN <<tbl2, NoErr>>
        ELSE <<NilPtr, Errorf("Could not find that table", lr[2])>>

\* Schema.Table without the second lookup, of the right-hand part
TableNoSplit(S, m, tableName) ==
    LET name == ToLower(tableName)
        tbl  == MapGet(S[m].tableMap, name, NilPtr)
    IN  IF tbl # NilPtr THEN <<tbl, NoErr>>
        ELSE <<NilPtr, Errorf("Could not find that table", LeftRight(name)[2])>>

\* Schema.Table
Table(S, m, tableName) ==
    LET name == ToLower(tableName)
        tbl  == MapGet(S[m].tableMap, name, NilPtr)
        lr   == LeftRight(name)
        tbl2 == MapGet(S[m].tableMap, lr[2], NilPtr)
    IN  IF tbl # NilPtr THEN <<tbl, NoErr>>
        ELSE IF lr[3] /\ tbl2 # NilPtr THEN <<tbl2, NoErr>>
        ELSE <<NilPtr, Errorf("Could not find that table", lr[2])>>

\* Schema.OpenConn without the `if conn == nil` of its end
OpenConnNoNilCheck(S, m, tableName, open) ==
    LET name == ToLower(tableName)
        sch  == MapGet(S[m].tableSchemas, name, Nil)
    IN  IF sch = Nil \/ S[sch].DS = Nil
        THEN <<Nil, Errorf("Could not find a DataSource for that table", name)>>
        ELSE IF open[2] # NoErr THEN <<Nil, open[2]>>
        ELSE <<open[1], NoErr>>

\* SchemaRefreshInterval, in minutes
SchemaRefreshInterval == -5

\* Schema.Since at the instant `now`; the zero time.Time is 0
Since(S, m, dur, now) ==
    IF S[m].lastRefreshed = 0 THEN FALSE
    ELSE IF S[m].lastRefreshed > now + dur THEN TRUE
    ELSE FALSE

\* Schema.Current at the instant `now`
Current(S, m, now) == Since(S, m, SchemaRefreshInterval, now)

\* the Schema that OpenConn finds to own the name, Nil when it finds none
\* with a Source
Owner(S, m, tableName) ==
    LET sch == MapGet(S[m].tableSchemas, ToLower(tableName), Nil)
    IN  IF sch = Nil \/ S[sch].DS = Nil THEN Nil ELSE sch

\* Schema.OpenConn; `open` is what Source.Open answers, <<conn, error>>
OpenConn(S, m, tableName, open) ==
    LET name == ToLower(tableName)
        sch  == MapGet(S[m].tableSchemas, name, Nil)
    IN  IF sch = Nil \/ S[sch].DS = Nil
        THEN <<Nil, Errorf("Could not find a DataSource for that table", name)>>
        ELSE IF open[2] # NoErr THEN <<Nil, open[2]>>
        ELSE IF open[1] = Nil
        THEN <<Nil, Errorf("Could not establish a connection", name)>>
        ELSE <<open[1], NoErr>>

\* Schema.Schema
Schema(S, m, schemaName) ==
    LET name  == ToLower(schemaName)
        child == MapGet(S[m].schemas, name, Nil)
    IN  IF child # Nil /\ S[child].DS # Nil THEN <<child, NoErr>>
        ELSE <<Nil, Errorf("Could not find a Schema by that name", name)>>

\* Schema.SchemaForTable without the `if m.Name == "schema"` of its start
SchemaForTableNoSystem(S, m, tableName) ==
    LET name == ToLower(tableName)
        ss   == MapGet(S[m].tableSchemas, name, Nil)
    IN  IF ss # Nil /\ S[ss].DS # Nil THEN <<ss, NoErr>>
        ELSE <<Nil, ErrNotFound>>

\* Schema.SchemaForTable
SchemaForTable(S, m, tableName) ==
    LET name == ToLower(tableName)
        ss   == MapGet(S[m].tableSchemas, name, Nil)
    IN  IF S[m].Name = <<"s", "c", "h", "e", "m", "a">> THEN <<m, NoErr>>
        ELSE IF ss # Nil /\ S[ss].DS # Nil THEN <<ss, NoErr>>
        ELSE <<Nil, ErrNotFound>>

----------------------------------------------------------------------------
(* The universe of the model *)

\* the Schema nodes: a parent, a child, a grandchild
Nodes == {"p", "c", "g"}

\* the Sources, and the node each is bound to at construction
Sources == {"dp", "dc"}
SourceOf(n) == CASE n = "p" -> "dp" [] n = "c" -> "dc" [] OTHER -> Nil

\* the configuration each node is constructed with
ConfOf(n) ==
    CASE n = "p" -> ConfigSource(0, <<"part_a">>)
      [] n = "c" -> ConfigSource(4, <<"part_b">>)
      [] OTHER -> NilConf

\* the names callers create tables with
NewTableNames == {<<"a">>, <<"B">>}
\* the same, one of them with a dot in it
QualifiedTableNames == {<<"B">>, <<"s", ".", "a">>}
\* the names callers create fields with
FieldNames == {<<"a">>, <<"b">>}
\* the configurations a node may be constructed with
ConfChoices ==
    {NilConf,
     ConfigSource(4, <<>>),
     ConfigSource(4, <<"part_a">>),
     ConfigSource(0, <<"part_a", "part_a2", "part_b">>)}
\* the names a Source may come to list
SourceTableNames == {<<"b">>}
\* the names callers look up
LookupNames == {<<"a">>, <<"A">>, <<"b">>, <<"s", ".", "a">>, <<"S", ".", "B">>}

\* what Source.Table may answer
Outcomes == {"ok", "err", "nil"}
\* what Source.Open may answer: <<conn, error>>
OpenAnswers(name) ==
    {<<c, e>> : c \in {Nil, "conn"}, e \in {NoErr, BackendErr("open", name)}}

\* the orders in which a `range` over a node's children may run
ChildOrders == {<<"p", "c", "g">>, <<"g", "c", "p">>}

----------------------------------------------------------------------------
(* The calls *)

NoRet == [op |-> "", m |-> Nil, name |-> <<>>, tp |-> NilPtr, fp |-> NilPtr, sv |-> Nil,
          conn |-> Nil, err |-> NoErr, names |-> <<>>, errs |-> {}, open |-> <<Nil, NoErr>>,
          rows |-> <<>>, ok |-> FALSE]

Here == World(schemas, tables, src)

\* the world a call leaves, and what the caller got
Commit(W, r) ==
    /\ calls' = calls + 1
    /\ schemas' = W.s
    /\ tables' = W.t
    /\ panicked' = W.panic
    /\ ret' = [r EXCEPT !.errs = W.errs]
    /\ UNCHANGED <<fields, src, pc, mu>>

\* a lookup changes nothing
Answer(r) ==
    /\ ret' = r
    /\ UNCHANGED <<schemas, tables, fields, src, calls, panicked, pc, mu>>

\* n is m or below m
RECURSIVE Subtree(_, _)
Subtree(S, m) ==
    {m} \cup UNION {Subtree(S, S[m].schemas[k]) : k \in DOMAIN S[m].schemas}

\* the tables the callers have created
Created == Cardinality({tp \in DOMAIN tables : tp <= MaxTables})

\* tbl := NewTable(name), the caller giving it a partition of its own or none
CallNewTable(name, part) ==
    /\ ~panicked
    /\ Created < MaxTables
    /\ tables' = MapPut(tables, Created + 1, [NewTableStruct(name) EXCEPT !.Partition = part])
    /\ ret' = [NoRet EXCEPT !.op = "NewTable", !.name = name, !.tp = Created + 1]
    /\ UNCHANGED <<schemas, fields, src, calls, panicked, pc, mu>>

\* m.AddTable(tbl)
CallAddTable(m, tp) ==
    /\ ~panicked
    /\ tp \in DOMAIN tables
    /\ Commit(addTable(Here, m, tp),
              [NoRet EXCEPT !.op = "AddTable", !.m = m, !.name = tables[tp].Name, !.tp = tp])

\* m.addChildSchema(child), on a tree that stays a tree
CallAddChildSchema(m, child) ==
    /\ ~panicked
    /\ child # m
    /\ schemas[child].parent \in {Nil, m}
    /\ m \notin Subtree(schemas, child)
    /\ Commit(addChildSchema(Here, m, child),
              [NoRet EXCEPT !.op = "addChildSchema", !.m = m, !.sv = child])

\* m.addSchemaForTable(tableName, ss)
CallAddSchemaForTable(m, tableName, ss, o) ==
    /\ ~panicked
    /\ Commit(addschemaForTableUnlocked(Here, m, tableName, ss, o),
              [NoRet EXCEPT !.op = "addSchemaForTable", !.m = m, !.name = tableName, !.sv = ss])

\* the names a node of the tree may meet during a refresh
KnownNames(S, sr) ==
    UNION {Range(S[n].tableNames) : n \in Nodes} \cup UNION {Range(sr[d]) : d \in DOMAIN sr}

\* the Source.Table calls a refresh of m may make: a node asks its Source
\* only about names it does not track yet
Consulted(S, sr, m) ==
    UNION {{<<S[n].DS, nm>> : nm \in KnownNames(S, sr) \ Range(S[n].tableNames)} :
              n \in {x \in Subtree(S, m) : S[x].DS # Nil}}

\* the orders a refresh of m can tell apart: one, unless a node has two children
Orders(S, m) ==
    IF \E n \in Subtree(S, m) : Cardinality(DOMAIN S[n].schemas) > 1
    THEN ChildOrders
    ELSE {<<"p", "c", "g">>}

\* a refresh that stamps the node with the time of the call
CallRefreshStamps(m, o, ord) ==
    /\ ~panicked
    /\ Commit([refreshSchemaUnlocked(Here, m, o, ord) EXCEPT !.s[m].lastRefreshed = MaxNow],
              [NoRet EXCEPT !.op = "refresh", !.m = m])

\* m.mu.Lock(); m.refreshSchemaUnlocked(); m.mu.Unlock()
CallRefresh(m, o, ord) ==
    /\ ~panicked
    /\ Commit(refreshSchemaUnlocked(Here, m, o, ord),
              [NoRet EXCEPT !.op = "refresh", !.m = m])

\* m.Tables()
CallTables(m) ==
    /\ ~panicked
    /\ Answer([NoRet EXCEPT !.op = "Tables", !.m = m, !.names = Tables(schemas, m)])

\* m.Table(tableName)
CallTable(m, tableName) ==
    /\ ~panicked
    /\ LET r == Table(schemas, m, tableName)
       IN  Answer([NoRet EXCEPT !.op = "Table", !.m = m, !.name = tableName,
                                !.tp = r[1], !.err = r[2]])

\* m.OpenConn(tableName), the Source answering `open`
CallOpenConn(m, tableName, open) ==
    /\ ~panicked
    /\ LET r == OpenConn(schemas, m, tableName, open)
       IN  Answer([NoRet EXCEPT !.op = "OpenConn", !.m = m, !.name = tableName,
                                !.conn = r[1], !.err = r[2], !.open = open,
                                !.errs = IF Owner(schemas, m, tableName) = Nil
                                         THEN {}
                                         ELSE {open[2]} \ {NoErr}])

\* m.SchemaForTable(tableName)
CallSchemaForTable(m, tableName) ==
    /\ ~panicked
    /\ LET r == SchemaForTable(schemas, m, tableName)
       IN  Answer([NoRet EXCEPT !.op = "SchemaForTable", !.m = m, !.name = tableName,
                                !.sv = r[1], !.err = r[2]])

\* the backend behind a Source gains a table
SourceGainsTable(ds, name) ==
    /\ ~panicked
    /\ name \notin Range(src[ds])
    /\ src' = [src EXCEPT ![ds] = Append(@, name)]
    /\ ret' = [NoRet EXCEPT !.op = "source"]
    /\ UNCHANGED <<schemas, tables, fields, calls, panicked, pc, mu>>

\* fld := &Field{Name: name, Description: desc}
CallNewField(name, desc) ==
    /\ ~panicked
    /\ Cardinality(DOMAIN fields) < MaxFields
    /\ fields' = MapPut(fields, Cardinality(DOMAIN fields) + 1, NewFieldStruct(name, desc))
    /\ ret' = [NoRet EXCEPT !.op = "NewField", !.name = name,
                            !.fp = Cardinality(DOMAIN fields) + 1]
    /\ UNCHANGED <<schemas, tables, src, calls, panicked, pc, mu>>

\* tbl.AddField(fld), of a field no other table holds
CallAddField(tp, fp) ==
    /\ ~panicked
    /\ tp \in DOMAIN tables
    /\ fp \in DOMAIN fields
    /\ \A t2 \in DOMAIN tables : t2 # tp => fp \notin Range(tables[t2].Fields)
    /\ LET r == AddField(tables[tp], fields, fp)
       IN  /\ tables' = [tables EXCEPT ![tp] = r[1]]
           /\ fields' = r[2]
    /\ ret' = [NoRet EXCEPT !.op = "AddField", !.tp = tp, !.fp = fp, !.name = fields[fp].Name]
    /\ UNCHANGED <<schemas, src, calls, panicked, pc, mu>>

\* rows := tbl.AsRows()
CallAsRows(tp) ==
    /\ ~panicked
    /\ tp \in DOMAIN tables
    /\ LET r == AsRows(tables[tp], fields)
       IN  /\ tables' = [tables EXCEPT ![tp] = r[1]]
           /\ fields' = r[2]
           /\ ret' = [NoRet EXCEPT !.op = "AsRows", !.tp = tp, !.rows = r[3]]
    /\ UNCHANGED <<schemas, src, calls, panicked, pc, mu>>

\* tbl.SetRows(rows)
CallSetRows(tp, rows) ==
    /\ ~panicked
    /\ tp \in DOMAIN tables
    /\ tables' = [tables EXCEPT ![tp] = SetRows(@, rows)]
    /\ ret' = [NoRet EXCEPT !.op = "SetRows", !.tp = tp, !.rows = rows.v]
    /\ UNCHANGED <<schemas, fields, src, calls, panicked, pc, mu>>

\* fld.Description = desc, by a caller that holds the field
CallDescribe(fp, desc) ==
    /\ ~panicked
    /\ fp \in DOMAIN fields
    /\ fields' = [fields EXCEPT ![fp].Description = desc]
    /\ ret' = [NoRet EXCEPT !.op = "Describe", !.fp = fp]
    /\ UNCHANGED <<schemas, tables, src, calls, panicked, pc, mu>>

\* m.Since(dur), called at the instant `now`
CallSince(m, dur, now) ==
    /\ ~panicked
    /\ Answer([NoRet EXCEPT !.op = "Since", !.m = m, !.ok = Since(schemas, m, dur, now)])

\* m.Current(), called at the instant `now`
CallCurrent(m, now) ==
    /\ ~panicked
    /\ Answer([NoRet EXCEPT !.op = "Current", !.m = m, !.ok = Current(schemas, m, now)])

----------------------------------------------------------------------------
(* The goroutines and the locks *)

\* a writer calling AddTable, a reader calling Tables() and Table()
Threads == {"w", "r"}

Idle == [at |-> "idle", op |-> "", m |-> Nil, ss |-> Nil, tp |-> NilPtr, names |-> <<>>,
         name |-> <<>>, err |-> NoErr, found |-> FALSE, before |-> <<>>]

\* an RWMutex nobody holds
Unlocked == [writer |-> Nil, readers |-> {}]

----------------------------------------------------------------------------
(* The states after construction *)

\* the nodes as constructed, each with its Source and the configuration given
NewNodes(conf) ==
    [n \in Nodes |-> [NewSchemaSource(<<n>>, SourceOf(n)) EXCEPT !.Conf = conf[n]]]

\* the tables the callers have made: the second one named nm, the others "a"
MadeTables(nm) ==
    [i \in 1..MaxTables |-> NewTableStruct(IF i = 2 THEN nm ELSE <<"a">>)]

\* nothing called yet, the backends empty, no goroutine in a call
Fresh ==
    /\ fields = <<>>
    /\ src = [d \in Sources |-> <<>>]
    /\ ret = NoRet
    /\ calls = 0
    /\ panicked = FALSE
    /\ pc = [t \in Threads |-> Idle]
    /\ mu = [n \in Nodes |-> Unlocked]

----------------------------------------------------------------------------
(* The catalog: the calls that change it, in any order, on a parent and a   *)
(* child that each have a Source, with the tables the callers have made     *)

Init ==
    /\ schemas = NewNodes([n \in Nodes |-> ConfOf(n)])
    /\ \E nm \in NewTableNames : tables = MadeTables(nm)
    /\ Fresh

\* AddTable of any table made, on any of the nodes given
DoAddTable(nodes) ==
    \E m \in nodes, tp \in DOMAIN tables : CallAddTable(m, tp)

\* addChildSchema between the nodes given
DoAddChildSchema(nodes) ==
    \E m \in nodes, child \in nodes : CallAddChildSchema(m, child)

\* addSchemaForTable of a name the backends know, for the node itself or a
\* child of it, the Source answering as it likes
DoAddSchemaForTable(nodes) ==
    \E m \in nodes, name \in SourceTableNames, ss \in nodes :
       /\ ss \in {m} \cup Children(Here, m)
       /\ \E o \in [{<<schemas[m].DS, name>>} -> Outcomes] :
             CallAddSchemaForTable(m, name, ss, o)

\* a refresh of any of the nodes given, the Sources answering as they like
DoRefresh(nodes) ==
    \E m \in nodes :
       \E ord \in Orders(schemas, m), o \in [Consulted(schemas, src, m) -> Outcomes] :
          CallRefresh(m, o, ord)

\* the backend of the child's Source changes
Backend ==
    \E name \in SourceTableNames : SourceGainsTable("dc", name)

Next ==
    \/ calls < MaxCalls /\ DoAddTable({"p", "c"})
    \/ calls < MaxCalls /\ DoAddChildSchema({"p", "c"})
    \/ calls < MaxCalls /\ DoAddSchemaForTable({"p", "c"})
    \/ calls < MaxCalls /\ DoRefresh({"p", "c"})
    \/ Backend

Spec == Init /\ [][Next]_vars

----------------------------------------------------------------------------
(* The lookups, made on a parent: tables are added to it and to its child,  *)
(* the child attached, the parent refreshed                                 *)

InitLookup ==
    /\ schemas = NewNodes([n \in Nodes |-> ConfOf(n)])
    /\ \E nm \in QualifiedTableNames : tables = MadeTables(nm)
    /\ Fresh

Lookups(nodes) ==
    \/ \E m \in nodes : CallTables(m)
    \/ \E m \in nodes, name \in LookupNames : CallTable(m, name)
    \/ \E m \in nodes, name \in LookupNames :
          \E open \in OpenAnswers(ToLower(name)) : CallOpenConn(m, name, open)
    \/ \E m \in nodes, name \in LookupNames : CallSchemaForTable(m, name)

NextLookup ==
    \/ calls < MaxBuild /\ DoAddTable({"p", "c"})
    \/ calls < MaxBuild /\ DoAddChildSchema({"p", "c"})
    \/ calls < MaxBuild /\ DoRefresh({"p"})
    \/ Backend
    \/ Lookups({"p"})

SpecLookup == InitLookup /\ [][NextLookup]_vars

----------------------------------------------------------------------------
(* A table and its fields, as the callers build them *)

InitField ==
    /\ schemas = NewNodes([n \in Nodes |-> ConfOf(n)])
    /\ tables = <<>>
    /\ Fresh

NextField ==
    \/ CallNewTable(<<"a">>, Nil)
    \/ \E name \in FieldNames : CallNewField(name, name)
    \/ \E tp \in DOMAIN tables, fp \in DOMAIN fields : CallAddField(tp, fp)

SpecField == InitField /\ [][NextField]_vars

----------------------------------------------------------------------------
(* AddTable on a node of any configuration, of tables that carry a          *)
(* partition of their own or none                                           *)

InitPartition ==
    /\ \E cf \in ConfChoices : schemas = NewNodes([n \in Nodes |-> cf])
    /\ tables = <<>>
    /\ Fresh

NextPartition ==
    \/ \E name \in NewTableNames, part \in {Nil, "part_own"} : CallNewTable(name, part)
    \/ calls < MaxCalls /\ DoAddTable({"p"})

SpecPartition == InitPartition /\ [][NextPartition]_vars

----------------------------------------------------------------------------
(* AddTable beside a reader.  AddTable takes no lock, so nothing orders its  *)
(* writes before the reads of another goroutine: a read of a node that the   *)
(* writer is writing yields the node's value now or its value before the    *)
(* writer's AddTable began, field by field.                                  *)

\* what a read by the reader may find node m to be
Racy(m) ==
    IF pc["w"].at # "idle" /\ pc["w"].m = m THEN {pc["w"].before, schemas[m]}
    ELSE {schemas[m]}

\* the writer enters m.AddTable(tbl) and runs up to `m.tableMap[tbl.Name] = tbl`
WriterStores(m, tp) ==
    /\ pc["w"].at = "idle"
    /\ LET W == addTableMap(Here, m, tp)
       IN  /\ schemas' = W.s
           /\ tables' = W.t
    /\ pc' = [pc EXCEPT !["w"] = [Idle EXCEPT !.at = "stored", !.m = m, !.tp = tp,
                                              !.before = schemas[m]]]
    /\ UNCHANGED <<fields, src, ret, calls, panicked, mu>>

\* the writer runs the partitioning and tbl.init(m)
WriterPartitions ==
    /\ pc["w"].at = "stored"
    /\ LET W == addTablePartition(Here, pc["w"].m, pc["w"].tp)
       IN  /\ schemas' = W.s
           /\ tables' = W.t
    /\ pc' = [pc EXCEPT !["w"].at = "inited"]
    /\ UNCHANGED <<fields, src, ret, calls, panicked, mu>>

\* the writer enters m.addschemaForTableUnlocked(tbl.Name, tbl.Schema) and
\* runs up to the sort of tableNames
WriterAppends ==
    /\ pc["w"].at = "inited"
    /\ LET name  == tables[pc["w"].tp].Name
           found == name \in Range(schemas[pc["w"].m].tableNames)
       IN  /\ schemas' = IF found THEN schemas
                         ELSE appendTableName(Here, pc["w"].m, name).s
           /\ pc' = [pc EXCEPT !["w"].at = "named", !["w"].found = found]
    /\ UNCHANGED <<tables, fields, src, ret, calls, panicked, mu>>

\* the writer runs the rest of addschemaForTableUnlocked, and AddTable returns
WriterIndexes ==
    /\ pc["w"].at = "named"
    /\ LET tp == pc["w"].tp
           W  == IF pc["w"].found THEN Here
                 ELSE indexTable(Here, pc["w"].m, tables[tp].Name, tables[tp].Schema,
                                 EmptyMap)
       IN  /\ schemas' = W.s
           /\ tables' = W.t
    /\ pc' = [pc EXCEPT !["w"] = Idle]
    /\ ret' = [NoRet EXCEPT !.op = "AddTable", !.m = pc["w"].m, !.tp = pc["w"].tp,
                            !.name = tables[pc["w"].tp].Name]
    /\ calls' = calls + 1
    /\ UNCHANGED <<fields, src, panicked, mu>>

\* the reader calls m.Tables(): no lock, the slice as it finds it
ReaderTables(m) ==
    /\ pc["r"].at = "idle"
    /\ \E v \in Racy(m) :
          pc' = [pc EXCEPT !["r"] = [Idle EXCEPT !.at = "listed", !.m = m,
                                                 !.names = Tables([schemas EXCEPT ![m] = v], m)]]
    /\ UNCHANGED <<schemas, tables, fields, src, ret, calls, panicked, mu>>

\* the reader calls m.Table(name) for a name of the list: m.mu.RLock()
ReaderRLock(name) ==
    /\ pc["r"].at = "listed"
    /\ name \in Range(pc["r"].names)
    /\ mu[pc["r"].m].writer = Nil
    /\ mu' = [mu EXCEPT ![pc["r"].m].readers = @ \cup {"r"}]
    /\ pc' = [pc EXCEPT !["r"].at = "locked", !["r"].name = name]
    /\ UNCHANGED <<schemas, tables, fields, src, ret, calls, panicked>>

\* the reader, holding the read lock, looks the name up in tableMap
ReaderTable ==
    /\ pc["r"].at = "locked"
    /\ \E v \in Racy(pc["r"].m) :
          LET r == Table([schemas EXCEPT ![pc["r"].m] = v], pc["r"].m, pc["r"].name)
          IN  pc' = [pc EXCEPT !["r"].at = "looked", !["r"].tp = r[1], !["r"].err = r[2]]
    /\ UNCHANGED <<schemas, tables, fields, src, ret, calls, panicked, mu>>

\* the reader's deferred m.mu.RUnlock(), and Table returns
ReaderRUnlock ==
    /\ pc["r"].at = "looked"
    /\ mu' = [mu EXCEPT ![pc["r"].m].readers = @ \ {"r"}]
    /\ pc' = [pc EXCEPT !["r"] = Idle]
    /\ ret' = [NoRet EXCEPT !.op = "Table", !.m = pc["r"].m, !.name = pc["r"].name,
                            !.names = pc["r"].names, !.tp = pc["r"].tp, !.err = pc["r"].err]
    /\ UNCHANGED <<schemas, tables, fields, src, calls, panicked>>

\* the reader looks nothing up
ReaderLeaves ==
    /\ pc["r"].at = "listed"
    /\ pc' = [pc EXCEPT !["r"] = Idle]
    /\ UNCHANGED <<schemas, tables, fields, src, ret, calls, panicked, mu>>

NextConc ==
    \/ \E m \in {"p", "c"}, tp \in DOMAIN tables : calls < MaxCalls /\ WriterStores(m, tp)
    \/ WriterPartitions
    \/ WriterAppends
    \/ WriterIndexes
    \/ \E m \in {"p", "c"} : ReaderTables(m)
    \/ \E name \in NewTableNames : ReaderRLock(ToLower(name))
    \/ ReaderTable
    \/ ReaderRUnlock
    \/ ReaderLeaves

SpecConc == Init /\ [][NextConc]_vars

----------------------------------------------------------------------------
(* SchemaForTable, on a tree whose root was constructed under the name      *)
(* "Schema" and which has a node with no Source                             *)

InitSystem ==
    /\ schemas = [NewNodes([n \in Nodes |-> ConfOf(n)])
                     EXCEPT !["p"] = [NewSchemaSource(<<"S", "c", "h", "e", "m", "a">>, SourceOf("p"))
                                         EXCEPT !.Conf = ConfOf("p")]]
    /\ \E nm \in NewTableNames : tables = MadeTables(nm)
    /\ Fresh

NextSystem ==
    \/ calls < MaxBuild /\ DoAddTable(Nodes)
    \/ calls < MaxBuild /\ DoAddChildSchema(Nodes)
    \/ \E m \in Nodes, name \in LookupNames : CallSchemaForTable(m, name)

SpecSystem == InitSystem /\ [][NextSystem]_vars

----------------------------------------------------------------------------
(* A node whose backend gains tables between its refreshes, and is asked     *)
(* for them                                                                  *)

InitLazy ==
    /\ schemas = NewNodes([n \in Nodes |-> ConfOf(n)])
    /\ \E nm \in NewTableNames : tables = MadeTables(nm)
    /\ Fresh

NextLazy ==
    \/ calls < MaxCalls /\ DoAddTable({"c"})
    \/ calls < MaxCalls /\ DoRefresh({"c"})
    \/ Backend
    \/ \E name \in LookupNames : CallTable("c", name)

SpecLazy == InitLazy /\ [][NextLazy]_vars

----------------------------------------------------------------------------
(* The locks: two goroutines change the catalog at once. A call that locks   *)
(* takes m.mu, runs and releases it in steps of its own; AddTable takes no   *)
(* lock and is one step.                                                     *)

\* m.mu.Lock() can return: nobody holds the mutex
CanLock(n) == mu[n].writer = Nil /\ mu[n].readers = {}

\* child.mu.RLock() can return: no writer holds the mutex
CanRLock(n) == mu[n].writer = Nil

\* the calls begun
Begun == calls + Cardinality({t \in Threads : pc[t].at # "idle"})

\* the links that the addChildSchema calls in flight are yet to write
RECURSIVE LinkAll(_, _)
LinkAll(W, ts) ==
    IF ts = {} THEN W
    ELSE LET t == CHOOSE x \in ts : TRUE
         IN  LinkAll(IF pc[t].op = "addChildSchema" /\ pc[t].at = "locked"
                     THEN addChildLink(W, pc[t].m, pc[t].ss)
                     ELSE W,
                     ts \ {t})

\* goroutine t calls m.AddTable(tbl), which runs without a lock
GoAddTable(t, m, tp) ==
    /\ pc[t].at = "idle"
    /\ CallAddTable(m, tp)

\* goroutine t enters m.addSchemaForTable(tableName, ss): m.mu.Lock()
SchemaForTableLocks(t, m, tableName, ss) ==
    /\ ~panicked
    /\ pc[t].at = "idle"
    /\ ss \in {m} \cup Children(Here, m)
    /\ CanLock(m)
    /\ mu' = [mu EXCEPT ![m].writer = t]
    /\ pc' = [pc EXCEPT ![t] = [Idle EXCEPT !.at = "locked", !.op = "addSchemaForTable",
                                            !.m = m, !.ss = ss, !.name = tableName]]
    /\ UNCHANGED <<schemas, tables, fields, src, ret, calls, panicked>>

\* m.addschemaForTableUnlocked(tableName, ss), under the lock
SchemaForTableIndexes(t, o) ==
    /\ pc[t].at = "locked"
    /\ pc[t].op = "addSchemaForTable"
    /\ LET W == addschemaForTableUnlocked(Here, pc[t].m, pc[t].name, pc[t].ss, o)
       IN  /\ schemas' = W.s
           /\ tables' = W.t
           /\ panicked' = W.panic
    /\ pc' = [pc EXCEPT ![t].at = "done"]
    /\ UNCHANGED <<fields, src, ret, calls, mu>>

\* goroutine t enters m.addChildSchema(child), on a tree that stays a tree:
\* m.mu.Lock()
AttachLocks(t, m, child) ==
    /\ ~panicked
    /\ pc[t].at = "idle"
    /\ child # m
    /\ LET S == LinkAll(Here, Threads).s
       IN  /\ S[child].parent \in {Nil, m}
           /\ m \notin Subtree(S, child)
    /\ CanLock(m)
    /\ mu' = [mu EXCEPT ![m].writer = t]
    /\ pc' = [pc EXCEPT ![t] = [Idle EXCEPT !.at = "locked", !.op = "addChildSchema",
                                            !.m = m, !.ss = child]]
    /\ UNCHANGED <<schemas, tables, fields, src, ret, calls, panicked>>

\* m.schemas[child.Name] = child; child.parent = m
AttachLinks(t) ==
    /\ pc[t].at = "locked"
    /\ pc[t].op = "addChildSchema"
    /\ schemas' = addChildLink(Here, pc[t].m, pc[t].ss).s
    /\ pc' = [pc EXCEPT ![t].at = "linked"]
    /\ UNCHANGED <<tables, fields, src, ret, calls, panicked, mu>>

\* child.mu.RLock(), without taking the lock
AttachSkipsRLock(t) ==
    /\ pc[t].at = "linked"
    /\ pc' = [pc EXCEPT ![t].at = "rlocked"]
    /\ UNCHANGED <<schemas, tables, fields, src, ret, calls, panicked, mu>>

\* child.mu.RLock()
AttachRLocks(t) ==
    /\ pc[t].at = "linked"
    /\ CanRLock(pc[t].ss)
    /\ mu' = [mu EXCEPT ![pc[t].ss].readers = @ \cup {t}]
    /\ pc' = [pc EXCEPT ![t].at = "rlocked"]
    /\ UNCHANGED <<schemas, tables, fields, src, ret, calls, panicked>>

\* the loop over child.tableMap
AttachCopies(t) ==
    /\ pc[t].at = "rlocked"
    /\ schemas' = addChildCopy(Here, pc[t].m, pc[t].ss).s
    /\ pc' = [pc EXCEPT ![t].at = "copied"]
    /\ UNCHANGED <<tables, fields, src, ret, calls, panicked, mu>>

\* the deferred child.mu.RUnlock()
AttachRUnlocks(t) ==
    /\ pc[t].at = "copied"
    /\ mu' = [mu EXCEPT ![pc[t].ss].readers = @ \ {t}]
    /\ pc' = [pc EXCEPT ![t].at = "done"]
    /\ UNCHANGED <<schemas, tables, fields, src, ret, calls, panicked>>

\* goroutine t is about to refresh m: m.mu.Lock()
RefreshLocks(t, m) ==
    /\ ~panicked
    /\ pc[t].at = "idle"
    /\ CanLock(m)
    /\ mu' = [mu EXCEPT ![m].writer = t]
    /\ pc' = [pc EXCEPT ![t] = [Idle EXCEPT !.at = "locked", !.op = "refresh", !.m = m]]
    /\ UNCHANGED <<schemas, tables, fields, src, ret, calls, panicked>>

\* m.refreshSchemaUnlocked(), under the lock of m
RefreshRuns(t, o, ord) ==
    /\ pc[t].at = "locked"
    /\ pc[t].op = "refresh"
    /\ LET W == refreshSchemaUnlocked(Here, pc[t].m, o, ord)
       IN  /\ schemas' = W.s
           /\ tables' = W.t
           /\ panicked' = W.panic
    /\ pc' = [pc EXCEPT ![t].at = "done"]
    /\ UNCHANGED <<fields, src, ret, calls, mu>>

\* m.mu.Unlock(), and the call returns
Unlocks(t) ==
    /\ pc[t].at = "done"
    /\ mu' = [mu EXCEPT ![pc[t].m].writer = Nil]
    /\ pc' = [pc EXCEPT ![t] = Idle]
    /\ ret' = [NoRet EXCEPT !.op = pc[t].op, !.m = pc[t].m, !.sv = pc[t].ss,
                            !.name = pc[t].name]
    /\ calls' = calls + 1
    /\ UNCHANGED <<schemas, tables, fields, src, panicked>>

NextLock ==
    \/ \E t \in Threads, m \in {"p", "c"}, tp \in DOMAIN tables :
          Begun < MaxLock /\ GoAddTable(t, m, tp)
    \/ \E t \in Threads, m \in {"p", "c"}, name \in SourceTableNames, ss \in Nodes :
          Begun < MaxLock /\ SchemaForTableLocks(t, m, name, ss)
    \/ \E t \in Threads :
          /\ pc[t].op = "addSchemaForTable"
          /\ \E o \in [{<<schemas[pc[t].m].DS, pc[t].name>>} -> Outcomes] :
                SchemaForTableIndexes(t, o)
    \/ \E t \in Threads, m \in Nodes, child \in Nodes :
          Begun < MaxLock /\ AttachLocks(t, m, child)
    \/ \E t \in Threads : AttachLinks(t)
    \/ \E t \in Threads : AttachRLocks(t)
    \/ \E t \in Threads : AttachCopies(t)
    \/ \E t \in Threads : AttachRUnlocks(t)
    \/ \E t \in Threads, m \in {"p", "c"} : Begun < MaxLock /\ RefreshLocks(t, m)
    \/ \E t \in Threads :
          /\ pc[t].op = "refresh"
          /\ \E ord \in Orders(schemas, pc[t].m),
                o \in [Consulted(schemas, src, pc[t].m) -> Outcomes] :
                   RefreshRuns(t, o, ord)
    \/ \E t \in Threads : Unlocks(t)

\* the child's backend holds a table the catalog has not loaded yet
InitLock ==
    /\ schemas = NewNodes([n \in Nodes |-> ConfOf(n)])
    /\ tables = MadeTables(<<"B">>)
    /\ fields = <<>>
    /\ src = [d \in Sources |-> IF d = "dc" THEN << <<"b">> >> ELSE <<>>]
    /\ ret = NoRet
    /\ calls = 0
    /\ panicked = FALSE
    /\ pc = [t \in Threads |-> Idle]
    /\ mu = [n \in Nodes |-> Unlocked]

SpecLock == InitLock /\ [][NextLock]_vars

----------------------------------------------------------------------------
(* A tree three nodes deep: a root with no Source above a node with a       *)
(* Source above another. Each table is added to one node only.              *)

\* AddTable of a table on the node it was made for
DoAddOwnTable(nodes) ==
    \E m \in nodes, tp \in DOMAIN tables :
       /\ tables[tp].Schema \in {Nil, m}
       /\ CallAddTable(m, tp)

NextTree ==
    \/ calls < MaxTree /\ DoAddOwnTable({"p", "c"})
    \/ calls < MaxTree /\ DoAddChildSchema(Nodes)
    \/ calls < MaxTree /\ DoRefresh({"p", "c"})
    \/ Backend
    \/ \E m \in Nodes :
          \E open \in OpenAnswers(<<"a">>) : CallOpenConn(m, <<"a">>, open)

SpecTree == Init /\ [][NextTree]_vars

----------------------------------------------------------------------------
(* loadTable, called on a node for a name of its Source *)

\* the names loadTable is called with
LoadNames == {<<"a">>, <<"b">>}

\* what m.DS.Table(tableName) returns: <<table, error>>
SourceAnswer(o, ds, tableName) ==
    CASE AskSource(o, ds, tableName) = "err" -> <<NilPtr, BackendErr(ds, tableName)>>
      [] AskSource(o, ds, tableName) = "nil" -> <<NilPtr, NoErr>>
      [] OTHER -> <<SourceTablePtr(ds, tableName), NoErr>>

\* err := m.loadTable(tableName)
CallLoadTable(m, tableName, o) ==
    /\ ~panicked
    /\ LET r == loadTable(Here, m, tableName, o)
       IN  Commit(r[1], [NoRet EXCEPT !.op = "loadTable", !.m = m, !.name = tableName,
                                      !.err = r[2],
                                      !.open = SourceAnswer(o, schemas[m].DS, tableName)])

NextLoad ==
    \/ calls < MaxCalls /\ DoAddTable({"p", "c"})
    \/ calls < MaxCalls /\ DoAddChildSchema({"p", "c"})
    \/ \E m \in {"p", "c"}, name \in LoadNames :
          \E o \in [{<<schemas[m].DS, name>>} -> Outcomes] :
             calls < MaxCalls /\ CallLoadTable(m, name, o)

SpecLoad == Init /\ [][NextLoad]_vars

----------------------------------------------------------------------------
(* The rows of a table: AsRows and SetRows, between the calls that build    *)
(* and change the table's fields                                            *)

\* the rows callers give SetRows: none, and one row
RowChoices == {NilRows, Rows(<< <<"x">> >>)}

NextRows ==
    \/ tables = <<>> /\ CallNewTable(<<"a">>, Nil)
    \/ \E name \in FieldNames :
          Cardinality(DOMAIN fields) < MaxRowFields /\ CallNewField(name, name)
    \/ \E tp \in DOMAIN tables, fp \in DOMAIN fields : CallAddField(tp, fp)
    \/ \E fp \in DOMAIN fields, desc \in FieldNames : CallDescribe(fp, desc)
    \/ \E tp \in DOMAIN tables : CallAsRows(tp)
    \/ \E tp \in DOMAIN tables, rows \in RowChoices : CallSetRows(tp, rows)

SpecRows == InitField /\ [][NextRows]_vars

----------------------------------------------------------------------------
(* The staleness check, asked between the calls that change the catalog and *)
(* the lookups                                                               *)

\* the instants the clock shows, and the windows Since is asked about
Instants == 1..MaxNow
Durations == {SchemaRefreshInterval, 0}

NextFresh ==
    \/ calls < MaxFresh /\ DoAddTable({"p", "c"})
    \/ calls < MaxFresh /\ DoAddChildSchema({"p", "c"})
    \/ calls < MaxFresh /\ DoAddSchemaForTable({"p", "c"})
    \/ calls < MaxFresh /\ DoRefresh({"p", "c"})
    \/ Backend
    \/ \E name \in LookupNames : CallTable("p", name)
    \/ \E m \in {"p", "c"}, dur \in Durations, now \in Instants : CallSince(m, dur, now)
    \/ \E m \in {"p", "c"}, now \in Instants : CallCurrent(m, now)

SpecFresh == Init /\ [][NextFresh]_vars

----------------------------------------------------------------------------
(* The claims *)

\* C1: on every node, after any sequence of AddTable, addChildSchema and
\* refresh, the names in tableNames, the keys of tableMap and the keys of
\* tableSchemas are the same set
C1_IndexesAgree ==
    \A n \in Nodes :
       /\ Range(schemas[n].tableNames) = DOMAIN schemas[n].tableMap
       /\ DOMAIN schemas[n].tableMap = DOMAIN schemas[n].tableSchemas

\* C2: AddTable is atomic for a concurrent reader: a reader that calls
\* Tables() and then Table() for a name of the list it got never finds the
\* name missing from tableMap
C2_ReaderFindsListedTable ==
    pc["r"].at = "looked" => pc["r"].err = NoErr

\* the tables the node S[n] holds: the keys of tableMap with a table
Held(S, n) == {k \in DOMAIN S[n].tableMap : S[n].tableMap[k] # NilPtr}

\* C3, attachment: when child C is attached to P, every table C holds
\* resolves in P, to C's table
C3_Attach ==
    ret'.op = "addChildSchema" =>
       \A k \in Held(schemas, ret'.sv) :
          Table(schemas', ret'.m, k) = <<schemas[ret'.sv].tableMap[k], NoErr>>

\* C3, snapshot: a call on another node that is not above P, AddTable on the
\* child among them, changes the answer of no P.Table lookup
C3_Snapshot ==
    \A P \in Nodes :
       P \notin (IF ret'.m \in Nodes THEN Subtree(schemas, ret'.m) ELSE {}) =>
          \A name \in LookupNames : Table(schemas', P, name) = Table(schemas, P, name)

\* C3, refresh: after a refresh of P, every table a child of P holds and
\* lists resolves in P (table names being unique across the backends, P's own
\* backend has no table of that name)
C3_Refresh ==
    ret'.op = "refresh" /\ ~panicked' =>
       \A C \in Children(Here, ret'.m) :
          \A k \in Held(schemas, C) \cap Range(schemas[C].tableNames) :
             k \notin Range(src[schemas[ret'.m].DS])
                => Table(schemas', ret'.m, k)[2] = NoErr

\* C3: child attachment is a snapshot.  The tables the child holds when it is
\* attached resolve in the parent; a table added to the child afterwards
\* changes nothing in the parent, whose lookups answer as before until a call
\* on the parent itself; and a refresh of the parent makes the table resolve
C3_SnapshotUntilRefresh ==
    [][C3_Attach /\ C3_Snapshot /\ C3_Refresh]_vars

\* the node n has a live Source and the table named `name` that it holds was
\* registered on it by AddTable: a table of the callers, bound to n by init
AddedTo(n, name) ==
    /\ schemas[n].DS # Nil
    /\ \E tp \in 1..MaxTables :
          /\ tables[tp].Name = name
          /\ tables[tp].Schema = n
          /\ MapGet(schemas[n].tableMap, name, NilPtr) = tp

\* C4: after AddTable(t) on a node with a live Source the node is the owner
\* of t.Name: SchemaForTable(t.Name) returns the node, and OpenConn(t.Name)
\* answers what the node's Source.Open answered, not the missing-owner error
C4_AddTableRegistersOwner ==
    /\ (ret.op = "SchemaForTable" /\ AddedTo(ret.m, ToLower(ret.name)))
          => (ret.sv = ret.m /\ ret.err = NoErr)
    /\ (ret.op = "OpenConn" /\ AddedTo(ret.m, ToLower(ret.name)))
          => ret.err # Errorf("Could not find a DataSource for that table", ToLower(ret.name))

\* the descriptors of the configuration conf for the table named `name`
Matching(conf, name) ==
    {conf.Partitions[i] : i \in {j \in DOMAIN conf.Partitions :
                                    PartitionTable(conf.Partitions[j]) = name}}

RECURSIVE FirstMatching(_, _)
FirstMatching(parts, name) ==
    IF Len(parts) = 0 THEN Nil
    ELSE IF PartitionTable(parts[1]) = name THEN parts[1]
    ELSE FirstMatching(Tail(parts), name)

C6_UpsertPreservesOrdinals ==
    [][ret'.op = "AddField" =>
          LET old  == tables[ret'.tp]
              new  == tables'[ret'.tp]
              slot == SlotOf(old.Fields, fields, fields[ret'.fp].Name, 1)
          IN  /\ slot # 0 =>
                    /\ new.Fields[slot] = ret'.fp
                    /\ fields'[ret'.fp].idx = fields[old.Fields[slot]].idx
              /\ \A i \in 1..Len(new.Fields) : fields'[new.Fields[i]].idx = i - 1]_vars

\* C7: Table lookup is case-insensitive: what Table(T) returned is what
\* Table(lowercase(T)) and Table(uppercase(T)) return
C7_CaseInsensitive ==
    ret.op = "Table" =>
       /\ <<ret.tp, ret.err>> = Table(schemas, ret.m, ToLower(ret.name))
       /\ <<ret.tp, ret.err>> = Table(schemas, ret.m, ToUpper(ret.name))

\* C7, the case: a name that is not lower-case, looked up and found
C7_Witness ==
    /\ ret.op = "Table"
    /\ ret.name # ToLower(ret.name)
    /\ ret.err = NoErr
    /\ ret.tp # NilPtr

\* the node holds a table under the key k
Registered(S, n, k) == MapGet(S[n].tableMap, k, NilPtr) # NilPtr

\* C8 as claimed: Table("s.t") returns what Table("t") returns when t is
\* registered, and fails when t is not registered
C8_QualifiedResolves ==
    (ret.op = "Table" /\ LeftRight(ToLower(ret.name))[3]) =>
       LET right == LeftRight(ToLower(ret.name))[2]
       IN  IF Registered(schemas, ret.m, right)
           THEN <<ret.tp, ret.err>> = Table(schemas, ret.m, right)
           ELSE ret.tp = NilPtr /\ ret.err = Errorf("Could not find that table", right)

\* C8 as the code has it: the same, for a qualified name that is not itself
\* the key of a table: the whole name is looked up first, and a table
\* registered under it is what Table returns
C8_QualifiedResolvesUnlessExact ==
    (ret.op = "Table" /\ LeftRight(ToLower(ret.name))[3]) =>
       LET right == LeftRight(ToLower(ret.name))[2]
       IN  IF Registered(schemas, ret.m, ToLower(ret.name))
           THEN <<ret.tp, ret.err>> = <<schemas[ret.m].tableMap[ToLower(ret.name)], NoErr>>
           ELSE IF Registered(schemas, ret.m, right)
           THEN <<ret.tp, ret.err>> = Table(schemas, ret.m, right)
           ELSE ret.tp = NilPtr /\ ret.err = Errorf("Could not find that table", right)

\* C8, the case: a qualified name, no table under the whole name, a table
\* under its right-hand part, and that table returned
C8_Witness ==
    /\ ret.op = "Table"
    /\ LeftRight(ToLower(ret.name))[3]
    /\ ~Registered(schemas, ret.m, ToLower(ret.name))
    /\ Registered(schemas, ret.m, LeftRight(ToLower(ret.name))[2])
    /\ ret.tp = schemas[ret.m].tableMap[LeftRight(ToLower(ret.name))[2]]
    /\ ret.err = NoErr

\* C9: OpenConn returns a connection and no error exactly when the name has
\* an owner with a Source and Source.Open answered a connection and no error;
\* with no owner it fails, with an error from Open it fails with that error,
\* with neither connection nor error from Open it fails with an error of its
\* own; a nil connection never comes with a nil error
C9_OpenConn ==
    ret.op = "OpenConn" =>
       LET name == ToLower(ret.name)
           live == Owner(schemas, ret.m, ret.name) # Nil
           noOwner == Errorf("Could not find a DataSource for that table", name)
           noConn  == Errorf("Could not establish a connection", name)
       IN  /\ (ret.conn # Nil /\ ret.err = NoErr)
                 <=> (live /\ ret.open[1] # Nil /\ ret.open[2] = NoErr)
           /\ ~live => (ret.conn = Nil /\ ret.err = noOwner)
           /\ (live /\ ret.open[2] # NoErr) => (ret.conn = Nil /\ ret.err = ret.open[2])
           /\ (live /\ ret.open[2] = NoErr /\ ret.open[1] = Nil)
                 => (ret.conn = Nil /\ ret.err = noConn)
           /\ noConn \notin {NoErr, noOwner, ret.open[2]}
           /\ ~(ret.conn = Nil /\ ret.err = NoErr)

\* C9, the case: the owner found, Open answering neither connection nor
\* error, and OpenConn failing
C9_Witness ==
    /\ ret.op = "OpenConn"
    /\ Owner(schemas, ret.m, ret.name) # Nil
    /\ ret.open = <<Nil, NoErr>>
    /\ ret.conn = Nil
    /\ ret.err = Errorf("Could not establish a connection", ToLower(ret.name))

\* C10: backend failures are never swallowed: every error a Source returned
\* during a call (describing a table during a refresh or a load, opening it
\* during OpenConn) is the error the call returns
C10_BackendErrorsReturned ==
    \A e \in ret.errs : ret.err = e

\* C11: SchemaForTable on a node named "schema" returns that node for every
\* table name; on any other node it returns the owner registered for the
\* lower-cased name when there is one and it has a Source, and fails with
\* ErrNotFound otherwise
C11_SchemaForTable ==
    ret.op = "SchemaForTable" =>
       IF schemas[ret.m].Name = <<"s", "c", "h", "e", "m", "a">>
       THEN ret.sv = ret.m /\ ret.err = NoErr
       ELSE IF Owner(schemas, ret.m, ret.name) # Nil
       THEN ret.sv = schemas[ret.m].tableSchemas[ToLower(ret.name)] /\ ret.err = NoErr
       ELSE ret.sv = Nil /\ ret.err = ErrNotFound

\* C11, the case: the node named "schema" asked for a name it has no owner
\* for, and answering itself
C11_Witness ==
    /\ ret.op = "SchemaForTable"
    /\ schemas[ret.m].Name = <<"s", "c", "h", "e", "m", "a">>
    /\ ~HasKey(schemas[ret.m].tableSchemas, ToLower(ret.name))
    /\ ret.sv = ret.m
    /\ ret.err = NoErr

\* the tables that resolve from the catalog: the tables some node holds
Resolvable(S) == UNION {{S[n].tableMap[k] : k \in Held(S, n)} : n \in Nodes}

\* C12: Id stability.  A table that resolves from the catalog keeps its id
\* through every call, and after every call any two tables that resolve from
\* the catalog and have the same lower-case name have the same id
C12_IdStable ==
    [][/\ \A tp \in Resolvable(schemas) : tables'[tp].tblID = tables[tp].tblID
       /\ \A t1, t2 \in Resolvable(schemas') :
             tables'[t1].Name = tables'[t2].Name => tables'[t1].tblID = tables'[t2].tblID]_vars

\* C13: in every reachable catalog, whatever sequence of AddTable,
\* addSchemaForTable, addChildSchema and refresh produced it, every node's
\* tableNames is in strictly ascending order, hence sorted and free of
\* duplicates.
C13_NamesSorted ==
    \A n \in Nodes :
       \A i \in 1..(Len(schemas[n].tableNames) - 1) :
          StrLess(schemas[n].tableNames[i], schemas[n].tableNames[i + 1])

\* a name registered on a node that already lists a greater name
C13_Witness ==
    /\ ret.op = "AddTable"
    /\ ret.name = <<"a">>
    /\ schemas[ret.m].tableNames = << <<"a">>, <<"b">> >>

\* C14: a lookup of a name the node's index misses, but that the backend of
\* the node's Source holds, loads the table from the Source: the lookup
\* returns a table and no error, and the index holds that table afterwards.
C14_LazyLoad ==
    (/\ ret.op = "Table"
     /\ schemas[ret.m].DS # Nil
     /\ ToLower(ret.name) \in Range(src[schemas[ret.m].DS])) =>
       /\ ret.err = NoErr
       /\ ret.tp # NilPtr
       /\ MapGet(schemas[ret.m].tableMap, ToLower(ret.name), NilPtr) = ret.tp

\* the table map, the name list, the owner map and the child map of node n
Structure(S, n) == <<S[n].tableMap, S[n].tableNames, S[n].tableSchemas, S[n].schemas>>

\* C15: every step that changes a node's table map, name list, owner map
\* or child map is taken by the goroutine that holds that node's exclusive
\* lock.
C15_MutationsLocked ==
    [][\A n \in Nodes :
          Structure(schemas', n) # Structure(schemas, n) =>
             /\ mu[n].writer # Nil
             /\ pc'[mu[n].writer] # pc[mu[n].writer]]_vars

\* goroutine t is inside child.mu.RLock(), which a writer keeps from returning
Blocked(t) == pc[t].at = "linked" /\ ~CanRLock(pc[t].ss)

\* t waits, through k or fewer blocked goroutines, for a lock that u holds
RECURSIVE WaitsFor(_, _, _)
WaitsFor(t, u, k) ==
    /\ k > 0
    /\ Blocked(t)
    /\ \/ mu[pc[t].ss].writer = u
       \/ WaitsFor(mu[pc[t].ss].writer, u, k - 1)

Provides(o, k) ==
    /\ schemas[o].DS # Nil
    /\ \/ k \in Range(src[schemas[o].DS])
       \/ /\ MapGet(schemas[o].tableMap, k, NilPtr) # NilPtr
          /\ tables[schemas[o].tableMap[k]].Schema = o

\* C17: in a tree of any depth, every name of a node's tableSchemas maps to
\* a node of its subtree that holds the table itself, so that OpenConn on
\* the node opens the table on the Source that holds it.
C17_OwnerHoldsTable ==
    \A n \in Nodes :
       \A k \in DOMAIN schemas[n].tableSchemas :
          /\ schemas[n].tableSchemas[k] \in Subtree(schemas, n)
          /\ Provides(schemas[n].tableSchemas[k], k)

C19_AsRowsMemoizes ==
    [][(ret'.op = "AsRows" /\ ~tables[ret'.tp].rows.isNil) =>
          ret'.rows = tables[ret'.tp].rows.v]_vars

\* C20: owner and table stay coherent. On every node, for every name that is
\* a key of both tableMap and tableSchemas, the table tableMap holds under
\* the name is the table the owning node's tableMap holds under it.
C20_OwnerTableCoherent ==
    \A n \in Nodes :
       \A k \in (DOMAIN schemas[n].tableMap) \cap (DOMAIN schemas[n].tableSchemas) :
          schemas[n].tableMap[k] =
             MapGet(schemas[schemas[n].tableSchemas[k]].tableMap, k, NilPtr)

\* C21: resolution is monotonic. A name that Table resolves on a node is
\* resolved on that node after every further AddTable, addSchemaForTable,
\* addChildSchema and refresh: no call removes a table from tableMap or
\* puts a nil entry in its place.
C21_ResolutionMonotonic ==
    [][\A n \in Nodes, name \in LookupNames :
          Table(schemas, n, name)[2] = NoErr => Table(schemas', n, name)[2] = NoErr]_vars

\* C22: every listed name resolves. On every node, whatever the Sources
\* answered during the refreshes and addSchemaForTable calls so far, Table
\* succeeds for every name that Tables() returns.
C22_ListedNamesResolve ==
    \A n \in Nodes :
       \A k \in Range(Tables(schemas, n)) : Table(schemas, n, k)[2] = NoErr

====
